---- MODULE Spec2Model ----
(***************************************************************************)
(* admin-revoker (cmd/admin-revoker/main.go): the command dispatcher of    *)
(* main(), revokeBySerial and revokeByReg, as a state machine.  One        *)
(* behaviour is one or two successive invocations of the tool against the  *)
(* same certificate table and the same remote authorities.                 *)
(***************************************************************************)
EXTENDS Integers, Sequences, FiniteSets, TLC

\* ------------------------------------------------------------- bounds
\* rows of the certificates table
MaxCerts == 3
\* largest count RevokeAuthorizationsByDomain reports
MaxCount == 2

\* ------------------------------------------------------------- constants
\* main.go:113  reasonCode > 10
MaxReasonCode == 10
\* main.go:113  reasonCode == 7
UnusedReasonCode == 7
\* the tag that opens a well-formed DER certificate (an ASN.1 SEQUENCE)
DerSequenceTag == "SEQUENCE"

\* reason codes the operator may type: one below and one above the range
ReasonCodes == -1 .. (MaxReasonCode + 1)
\* registrations known to the storage authority; the operator may also type 3
Registrations == {1, 2}
RegIDs == Registrations \cup {3}
\* serials the operator may type: those of the table rows and one more
Serials == 1 .. (MaxCerts + 1)
Counts == 0 .. MaxCount
Commands == {"serial-revoke", "reg-revoke", "list-reasons", "auth-revoke"}
\* the forms of command line the operator may type:
\*   ok          --config <path> and the arguments the usage text names
\*   short       nothing after the command (len(os.Args) <= 2)
\*   badflag     a flag flagSet.Parse rejects
\*   noconfig    no --config, or an empty one
\*   nargs       --config <path> and a wrong number of arguments
\*   reason-nan  a reason code that is not an integer
\*   reg-nan     a registration ID that is not an integer
ArgForms == {"ok", "short", "badflag", "noconfig", "nargs", "reason-nan", "reg-nan"}
\* os.Args[1] may also be a word that names no command
Words == Commands \cup {"unknown"}
\* the errors that end the process before its command starts to work
StartupErrors == {"Usage", "FlagFailure", "ConfigFailure", "ArgumentFailure",
                  "SetupFailure"}

\* revocation.ReasonToString
ReasonToString ==
  [c \in ((0 .. MaxReasonCode) \ {UnusedReasonCode}) |->
     CASE c = 0 -> "unspecified"
       [] c = 1 -> "keyCompromise"
       [] c = 2 -> "cACompromise"
       [] c = 3 -> "affiliationChanged"
       [] c = 4 -> "superseded"
       [] c = 5 -> "cessationOfOperation"
       [] c = 6 -> "certificateHold"
       [] c = 8 -> "removeFromCRL"
       [] c = 9 -> "privilegeWithdrawn"
       [] c = 10 -> "aAcompromise"]

\* ------------------------------------------------------------- state
VARIABLES
  store,       \* the certificates table: rows [serial, der, registrationID]
  raRevoked,   \* serial numbers the registration authority holds revoked
  again,       \* TRUE while a second invocation may still follow
  pc,          \* position of the running invocation
  command,     \* os.Args[1]
  argv,        \* the form of os.Args[2:]
  serialArg,   \* serial-revoke args[0]
  regID,       \* reg-revoke args[0]
  reasonCode,  \* args[1]
  tx,          \* the local transaction: none, open, committed, rolledback, commitfailed
  certs,       \* revokeByReg: the serials tx.Select returned
  idx,         \* revokeByReg: position of the range loop
  serial,      \* revokeBySerial: its serial parameter
  cert,        \* revokeBySerial: the parsed certificate
  err,         \* the error in flight ("" is nil)
  exit,        \* exit status of the process (-1 while it runs)
  trace,       \* calls made by this invocation, in order: [op, arg]
  raCalls,     \* AdministrativelyRevokeCertificate calls: [cert, reason]
  logged,      \* logger.Info records of this invocation
  stats,       \* stats.Inc calls of this invocation: [name, value]
  saReply,     \* auth-revoke: what RevokeAuthorizationsByDomain returned
  printed      \* list-reasons: the lines printed

vars == <<store, raRevoked, again, pc, command, argv, serialArg, regID, reasonCode, tx,
          certs, idx, serial, cert, err, exit, trace, raCalls, logged, stats, saReply,
          printed>>

persistent == <<store, raRevoked, again>>
inputs == <<command, argv, serialArg, regID, reasonCode>>
cascade == <<certs, idx>>
outputs == <<raCalls, logged, stats, saReply, printed>>

NoCert == [SerialNumber |-> 0, Raw |-> <<>>]

\* ------------------------------------------------------------- helpers
Ev(op, arg) == [op |-> op, arg |-> arg]

\* the DER bytes the issuance pipeline stored for serial s, and corrupted ones
GoodDer(s) == <<DerSequenceTag, s>>
BadDer(s) == <<"garbage", s>>

\* x509.ParseCertificate: the structured certificate, or NoCert for an error
ParseCertificate(der) ==
  IF Len(der) = 2 /\ der[1] = DerSequenceTag
    THEN [SerialNumber |-> der[2], Raw |-> der]
    ELSE NoCert

\* the guard without its reserved code
InvalidReason_RangeOnly(c) == c < 0 \/ c > MaxReasonCode

\* ReasonCodeRegistry.validate: the guard of revokeBySerial
InvalidReason(c) == c < 0 \/ c = UnusedReasonCode \/ c > MaxReasonCode

\* the query without its WHERE clause
SelectCertificate_AnyRow(s) == {i \in 1 .. Len(store) : TRUE}

\* sa.SelectCertificate(tx, "WHERE serial = ?", serial): the matching rows
SelectCertificate(s) == {i \in 1 .. Len(store) : store[i].serial = s}

\* positions of the rows owned by a registration, in table order
RECURSIVE RowsOf(_, _)
RowsOf(r, n) ==
  IF n = 0 THEN <<>>
  ELSE IF store[n].registrationID = r
    THEN Append(RowsOf(r, n - 1), store[n].serial)
    ELSE RowsOf(r, n - 1)

\* the enumeration without its WHERE clause: every row of the table
SelectByReg_AllRows(r) == [i \in 1 .. Len(store) |-> store[i].serial]

\* tx.Select(&certs, "SELECT serial FROM certificates WHERE registrationID = :regID")
SelectByReg(r) == RowsOf(r, Len(store))

\* revocation.ReasonToString[reasonCode]: a Go map yields "" for a missing key
ReasonLabel(c) == IF c \in DOMAIN ReasonToString THEN ReasonToString[c] ELSE ""

\* the tables an invocation may find: n rows with distinct serials, stored in
\* ascending or in descending order of serial
Rows(n) == [1 .. n -> [der : {"good", "bad"}, registrationID : Registrations]]
MkStore(n, f, desc) ==
  [i \in 1 .. n |->
     LET s == IF desc THEN n + 1 - i ELSE i
     IN  [serial |-> s,
          der |-> IF f[i].der = "good" THEN GoodDer(s) ELSE BadDer(s),
          registrationID |-> f[i].registrationID]]

\* ------------------------------------------------------------- Init
Fresh ==
  /\ pc = "start"
  /\ command = "none"
  /\ argv = "none"
  /\ serialArg = 0
  /\ regID = 0
  /\ reasonCode = 0
  /\ tx = "none"
  /\ certs = <<>>
  /\ idx = 0
  /\ serial = 0
  /\ cert = NoCert
  /\ err = ""
  /\ exit = -1
  /\ trace = <<>>
  /\ raCalls = <<>>
  /\ logged = <<>>
  /\ stats = <<>>
  /\ saReply = <<>>
  /\ printed = <<>>

Init ==
  /\ \E n \in 0 .. MaxCerts : \E f \in Rows(n) : \E desc \in BOOLEAN :
       store = MkStore(n, f, desc)
  /\ raRevoked = {}
  /\ again = TRUE
  /\ Fresh

\* ------------------------------------------------------------- main()
\* os.Args: the operator picks a command and the form of its command line;
\* the values of the arguments are read where the case body converts them
Invoke ==
  /\ pc = "start"
  /\ \E c \in Words, a \in ArgForms :
       /\ a = "reason-nan" => c \in {"serial-revoke", "reg-revoke"}
       /\ a = "reg-nan" => c = "reg-revoke"
       /\ command' = c
       /\ argv' = a
  /\ pc' = "main"
  /\ UNCHANGED <<persistent, serialArg, regID, reasonCode, tx, cascade, serial, cert,
                 err, exit, trace, outputs>>

\* cmd.FailOnError with a non-nil error: the process ends with status 1
FailOnError(e) ==
  /\ err' = e
  /\ exit' = 1
  /\ pc' = "done"

\* usage(): the usage text on stderr and os.Exit(1)
Usage ==
  /\ err' = "Usage"
  /\ exit' = 1
  /\ pc' = "done"

\* main() up to the switch: the length check, flagSet.Parse, the --config
\* check and cmd.ReadConfigFile, which fails or not as the file decides
Main_Flags ==
  /\ pc = "main"
  /\ IF argv = "short" THEN Usage
     ELSE IF argv = "badflag" THEN FailOnError("FlagFailure")
     ELSE IF argv = "noconfig" THEN Usage
     ELSE \/ FailOnError("ConfigFailure")
          \/ /\ pc' = "switch"
             /\ UNCHANGED <<err, exit>>
  /\ UNCHANGED <<persistent, inputs, tx, cascade, serial, cert, trace, outputs>>

\* the switch of main(): the case the command and len(args) select, and the
\* conversions of the arguments at the head of that case
Main_Switch ==
  /\ pc = "switch"
  /\ CASE command = "serial-revoke" /\ argv # "nargs" ->
            IF argv = "reason-nan"
              THEN FailOnError("ArgumentFailure")
                   /\ UNCHANGED <<serialArg, regID, reasonCode>>
              ELSE /\ \E s \in Serials, rc \in ReasonCodes :
                        serialArg' = s /\ reasonCode' = rc
                   /\ pc' = "setupContext"
                   /\ UNCHANGED <<regID, err, exit>>
       [] command = "reg-revoke" /\ argv # "nargs" ->
            IF argv \in {"reg-nan", "reason-nan"}
              THEN FailOnError("ArgumentFailure")
                   /\ UNCHANGED <<serialArg, regID, reasonCode>>
              ELSE /\ \E r \in RegIDs, rc \in ReasonCodes :
                        regID' = r /\ reasonCode' = rc
                   /\ pc' = "setupContext"
                   /\ UNCHANGED <<serialArg, err, exit>>
       [] command = "list-reasons" ->
            pc' = "listReasons" /\ UNCHANGED <<serialArg, regID, reasonCode, err, exit>>
       [] command = "auth-revoke" /\ argv # "nargs" ->
            pc' = "setupContext" /\ UNCHANGED <<serialArg, regID, reasonCode, err, exit>>
       [] OTHER -> Usage /\ UNCHANGED <<serialArg, regID, reasonCode>>
  /\ UNCHANGED <<persistent, command, argv, tx, cascade, serial, cert, trace, outputs>>

\* setupContext(c): the TLS configuration, the RA client, the database map and
\* the SA client, each of which may end the process through cmd.FailOnError
SetupContext ==
  /\ pc = "setupContext"
  /\ \/ FailOnError("SetupFailure")
     \/ /\ pc' = IF command = "auth-revoke" THEN "authRevoke" ELSE "begin"
        /\ UNCHANGED <<err, exit>>
  /\ UNCHANGED <<persistent, inputs, tx, cascade, serial, cert, trace, outputs>>

\* tx, err := dbMap.Begin(), and the branch at main.go:198 / :221
Begin ==
  /\ pc = "begin"
  /\ \/ /\ tx' = "open"
        /\ trace' = Append(trace, Ev("begin", 0))
        /\ pc' = IF command = "serial-revoke" THEN "revokeBySerial" ELSE "getRegistration"
        /\ serial' = IF command = "serial-revoke" THEN serialArg ELSE serial
        /\ UNCHANGED <<err, exit>>
     \/ /\ trace' = trace \o <<Ev("begin", 0), Ev("rollback", 0)>>
        /\ FailOnError("StoreFailure")
        /\ UNCHANGED <<tx, serial>>
  /\ UNCHANGED <<persistent, inputs, cascade, cert, outputs>>

\* sa.Rollback(tx, err): tx.Rollback() and the error handed back
Rollback ==
  /\ tx' = "rolledback"
  /\ trace' = Append(trace, Ev("rollback", 0))

\* ------------------------------------------------------------- revokeBySerial
\* a loop that goes on to the next certificate after an error
ReturnFromRevokeBySerial_Continue(e) ==
  /\ err' = e
  /\ IF command = "serial-revoke"
       THEN pc' = "serialReturned" /\ idx' = idx
       ELSE pc' = "loop" /\ idx' = idx + 1

\* return err: back in main (serial-revoke) or in the loop of revokeByReg
ReturnFromRevokeBySerial(e) ==
  /\ err' = e
  /\ IF command = "serial-revoke"
       THEN pc' = "serialReturned" /\ idx' = idx
       ELSE IF e # ""
         THEN pc' = "regReturned" /\ idx' = idx
         ELSE pc' = "loop" /\ idx' = idx + 1

\* main.go:113-115
RBS_Validate ==
  /\ pc = "revokeBySerial"
  /\ IF InvalidReason(reasonCode)
       THEN pc' = "panic" /\ err' = "InvalidReason"
       ELSE pc' = "rbs_select" /\ err' = err
  /\ UNCHANGED <<persistent, inputs, tx, cascade, serial, cert, exit, trace, outputs>>

\* main.go:117-123
RBS_Select ==
  /\ pc = "rbs_select"
  /\ trace' = Append(trace, Ev("selectCertificate", serial))
  /\ \/ /\ SelectCertificate(serial) = {}
        /\ ReturnFromRevokeBySerial("NotFound")
        /\ cert' = cert
     \/ /\ ReturnFromRevokeBySerial("StoreFailure")
        /\ cert' = cert
     \/ /\ SelectCertificate(serial) # {}
        /\ pc' = "rbs_parse"
        /\ UNCHANGED <<err, idx, cert>>
  /\ UNCHANGED <<persistent, inputs, tx, certs, serial, exit, outputs>>

\* the parse with its error dropped: cert, _ := x509.ParseCertificate(...)
RBS_Parse_ErrorDropped ==
  /\ pc = "rbs_parse"
  /\ LET certObj == store[CHOOSE i \in SelectCertificate(serial) : TRUE]
     IN  cert' = ParseCertificate(certObj.der)
  /\ pc' = "rbs_user"
  /\ UNCHANGED <<persistent, inputs, tx, cascade, serial, err, exit, trace, outputs>>

\* a local short cut: a certificate the authority already holds revoked is
\* reported as done without a call
RBS_Parse_SkipRevoked ==
  /\ pc = "rbs_parse"
  /\ LET certObj == store[CHOOSE i \in SelectCertificate(serial) : TRUE]
         parsed == ParseCertificate(certObj.der)
     IN  IF parsed = NoCert
           THEN ReturnFromRevokeBySerial("MalformedCertificate") /\ cert' = cert
           ELSE IF parsed.SerialNumber \in raRevoked
             THEN ReturnFromRevokeBySerial("") /\ cert' = parsed
             ELSE pc' = "rbs_user" /\ cert' = parsed /\ UNCHANGED <<err, idx>>
  /\ UNCHANGED <<persistent, inputs, tx, certs, serial, exit, trace, outputs>>

\* main.go:124-127
RBS_Parse ==
  /\ pc = "rbs_parse"
  /\ LET certObj == store[CHOOSE i \in SelectCertificate(serial) : TRUE]
         parsed == ParseCertificate(certObj.der)
     IN  IF parsed = NoCert
           THEN ReturnFromRevokeBySerial("MalformedCertificate") /\ cert' = cert
           ELSE pc' = "rbs_user" /\ cert' = parsed /\ UNCHANGED <<err, idx>>
  /\ UNCHANGED <<persistent, inputs, tx, certs, serial, exit, trace, outputs>>

\* main.go:129-130: u, err := user.Current(); u.Username dereferences u
RBS_UserCurrent ==
  /\ pc = "rbs_user"
  /\ \/ pc' = "rbs_revoke" /\ err' = err
     \/ pc' = "panic" /\ err' = "NilPointer"
  /\ UNCHANGED <<persistent, inputs, tx, cascade, serial, cert, exit, trace, outputs>>

\* the call with a fixed reason instead of the operator's
RBS_Revoke_FixedReason ==
  /\ pc = "rbs_revoke"
  /\ trace' = Append(trace, Ev("revoke", serial))
  /\ raCalls' = Append(raCalls, [cert |-> cert, reason |-> 0])
  /\ \/ /\ raRevoked' = raRevoked \cup {cert.SerialNumber}
        /\ pc' = "rbs_log"
        /\ UNCHANGED <<err, idx>>
     \/ /\ raRevoked' = raRevoked
        /\ ReturnFromRevokeBySerial("RemoteCallFailure")
  /\ UNCHANGED <<store, again, inputs, tx, certs, serial, cert, exit, logged, stats,
                 saReply, printed>>

\* main.go:130-133: rac.AdministrativelyRevokeCertificate
RBS_Revoke ==
  /\ pc = "rbs_revoke"
  /\ trace' = Append(trace, Ev("revoke", serial))
  /\ raCalls' = Append(raCalls, [cert |-> cert, reason |-> reasonCode])
  /\ \/ /\ raRevoked' = raRevoked \cup {cert.SerialNumber}
        /\ pc' = "rbs_log"
        /\ UNCHANGED <<err, idx>>
     \/ /\ raRevoked' = raRevoked
        /\ ReturnFromRevokeBySerial("RemoteCallFailure")
  /\ UNCHANGED <<store, again, inputs, tx, certs, serial, cert, exit, logged, stats,
                 saReply, printed>>

\* the log step also deleting the revoked certificate's row from the table
RBS_Log_DeletesRow ==
  /\ pc = "rbs_log"
  /\ logged' = Append(logged, <<"Revoked certificate ", serial, " with reason '",
                                ReasonLabel(reasonCode), "'">>)
  /\ trace' = Append(trace, Ev("audit", serial))
  /\ ReturnFromRevokeBySerial("")
  /\ store' = SelectSeq(store, LAMBDA row : row.serial # serial)
  /\ UNCHANGED <<raRevoked, again, inputs, tx, certs, serial, cert, exit, raCalls, stats,
                 saReply, printed>>

\* main.go:135-136
RBS_Log ==
  /\ pc = "rbs_log"
  /\ logged' = Append(logged, <<"Revoked certificate ", serial, " with reason '",
                                ReasonLabel(reasonCode), "'">>)
  /\ trace' = Append(trace, Ev("audit", serial))
  /\ ReturnFromRevokeBySerial("")
  /\ UNCHANGED <<persistent, inputs, tx, certs, serial, cert, exit, raCalls, stats,
                 saReply, printed>>

\* a panic unwinding main: serial-revoke defers nothing, the runtime exits with 2
Panic ==
  /\ pc = "panic"
  /\ command = "serial-revoke"
  /\ exit' = 2
  /\ pc' = "done"
  /\ UNCHANGED <<persistent, inputs, tx, cascade, serial, cert, err, trace, outputs>>

\* main.go:218 defer logger.AuditPanic(): it either recovers the panic, and main
\* returns, or lets it through
AuditPanic ==
  /\ pc = "panic"
  /\ command = "reg-revoke"
  /\ exit' \in {0, 2}
  /\ pc' = "done"
  /\ UNCHANGED <<persistent, inputs, tx, cascade, serial, cert, err, trace, outputs>>

\* ------------------------------------------------------------- serial-revoke
\* main.go:203-205
SerialRevokeCheck ==
  /\ pc = "serialReturned"
  /\ IF err # ""
       THEN Rollback /\ FailOnError(err)
       ELSE pc' = "commit" /\ UNCHANGED <<tx, trace, err, exit>>
  /\ UNCHANGED <<persistent, inputs, cascade, serial, cert, outputs>>

\* main.go:207-208 and :235-236: tx.Commit() and FailOnError
Commit ==
  /\ pc = "commit"
  /\ trace' = Append(trace, Ev("commit", 0))
  /\ \/ tx' = "committed" /\ exit' = 0 /\ pc' = "done" /\ err' = err
     \/ tx' = "commitfailed" /\ FailOnError("StoreFailure")
  /\ UNCHANGED <<persistent, inputs, cascade, serial, cert, outputs>>

\* ------------------------------------------------------------- reg-revoke
\* the lookup with its result ignored
GetRegistration_ErrorDropped ==
  /\ pc = "getRegistration"
  /\ trace' = Append(trace, Ev("getRegistration", regID))
  /\ pc' = "revokeByReg"
  /\ UNCHANGED <<persistent, inputs, tx, cascade, serial, cert, err, exit, outputs>>

\* main.go:225-228
GetRegistration ==
  /\ pc = "getRegistration"
  /\ trace' = Append(trace, Ev("getRegistration", regID))
  /\ \/ /\ regID \in Registrations
        /\ pc' = "revokeByReg"
        /\ UNCHANGED <<err, exit>>
     \/ FailOnError(IF regID \in Registrations THEN "RemoteCallFailure" ELSE "NotFound")
  /\ UNCHANGED <<persistent, inputs, tx, cascade, serial, cert, outputs>>

\* main.go:140-144
RevokeByReg_Select ==
  /\ pc = "revokeByReg"
  /\ trace' = Append(trace, Ev("selectByReg", regID))
  /\ \/ /\ certs' = SelectByReg(regID)
        /\ idx' = 1
        /\ pc' = "loop"
        /\ err' = err
     \/ /\ err' = "StoreFailure"
        /\ pc' = "regReturned"
        /\ UNCHANGED <<certs, idx>>
  /\ UNCHANGED <<persistent, inputs, tx, serial, cert, exit, outputs>>

\* the loop treating an empty enumeration as an error
RevokeByReg_Loop_EmptyIsError ==
  /\ pc = "loop"
  /\ IF idx <= Len(certs)
       THEN serial' = certs[idx] /\ pc' = "revokeBySerial" /\ err' = err
       ELSE /\ serial' = serial
            /\ pc' = "regReturned"
            /\ err' = IF Len(certs) = 0 THEN "NotFound" ELSE err
  /\ UNCHANGED <<persistent, inputs, tx, cascade, cert, exit, trace, outputs>>

\* main.go:146-153: the head of the range loop and the return after it
RevokeByReg_Loop ==
  /\ pc = "loop"
  /\ IF idx <= Len(certs)
       THEN serial' = certs[idx] /\ pc' = "revokeBySerial"
       ELSE serial' = serial /\ pc' = "regReturned"
  /\ UNCHANGED <<persistent, inputs, tx, cascade, cert, err, exit, trace, outputs>>

\* main.go:231-233
RegRevokeCheck ==
  /\ pc = "regReturned"
  /\ IF err # ""
       THEN Rollback /\ FailOnError(err)
       ELSE pc' = "commit" /\ UNCHANGED <<tx, trace, err, exit>>
  /\ UNCHANGED <<persistent, inputs, cascade, serial, cert, outputs>>

\* ------------------------------------------------------------- list-reasons
\* the sort with Less turned round: rc[i] > rc[j]
RECURSIVE SortCodes_Descending(_)
SortCodes_Descending(S) ==
  IF S = {} THEN <<>>
  ELSE LET m == CHOOSE x \in S : \A y \in S : ~(y > x)
       IN  <<m>> \o SortCodes_Descending(S \ {m})

\* sort.Sort(codes): ascending by Less (main.go:160)
RECURSIVE SortCodes(_)
SortCodes(S) ==
  IF S = {} THEN <<>>
  ELSE LET m == CHOOSE x \in S : \A y \in S : ~(y < x)
       IN  <<m>> \o SortCodes(S \ {m})

\* main.go:239-247
ListReasons ==
  /\ pc = "listReasons"
  /\ LET codes == SortCodes(DOMAIN ReasonToString)
     IN  printed' = [i \in 1 .. Len(codes) |-> <<codes[i], ReasonToString[codes[i]]>>]
  /\ exit' = 0
  /\ pc' = "done"
  /\ UNCHANGED <<persistent, inputs, tx, cascade, serial, cert, err, trace, raCalls,
                 logged, stats, saReply>>

\* ------------------------------------------------------------- auth-revoke
\* main.go:253-254: sac.RevokeAuthorizationsByDomain
AuthRevoke_Call ==
  /\ pc = "authRevoke"
  /\ trace' = Append(trace, Ev("revokeAuthorizationsByDomain", 0))
  /\ \/ /\ \E a \in Counts, p \in Counts :
             saReply' = <<[authsRevoked |-> a, pendingAuthsRevoked |-> p]>>
        /\ pc' = "authReport"
        /\ UNCHANGED <<err, exit>>
     \/ /\ saReply' = saReply
        /\ FailOnError("RemoteCallFailure")
  /\ UNCHANGED <<persistent, inputs, tx, cascade, serial, cert, raCalls, logged, stats,
                 printed>>

\* the report with the two counts exchanged
AuthRevoke_Report_Swapped ==
  /\ pc = "authReport"
  /\ LET authsRevoked == saReply[1].pendingAuthsRevoked
         pendingAuthsRevoked == saReply[1].authsRevoked
     IN  /\ logged' = Append(logged, <<"Revoked ", pendingAuthsRevoked,
                                       " pending authorizations and ", authsRevoked,
                                       " final authorizations">>)
         /\ stats' = stats \o <<[name |-> "RevokedAuthorizations", value |-> authsRevoked],
                                [name |-> "RevokedPendingAuthorizations",
                                 value |-> pendingAuthsRevoked]>>
  /\ trace' = Append(trace, Ev("audit", 0))
  /\ exit' = 0
  /\ pc' = "done"
  /\ UNCHANGED <<persistent, inputs, tx, cascade, serial, cert, err, raCalls, saReply,
                 printed>>

\* main.go:255-261
AuthRevoke_Report ==
  /\ pc = "authReport"
  /\ LET authsRevoked == saReply[1].authsRevoked
         pendingAuthsRevoked == saReply[1].pendingAuthsRevoked
     IN  /\ logged' = Append(logged, <<"Revoked ", pendingAuthsRevoked,
                                       " pending authorizations and ", authsRevoked,
                                       " final authorizations">>)
         /\ stats' = stats \o <<[name |-> "RevokedAuthorizations", value |-> authsRevoked],
                                [name |-> "RevokedPendingAuthorizations",
                                 value |-> pendingAuthsRevoked]>>
  /\ trace' = Append(trace, Ev("audit", 0))
  /\ exit' = 0
  /\ pc' = "done"
  /\ UNCHANGED <<persistent, inputs, tx, cascade, serial, cert, err, raCalls, saReply,
                 printed>>

\* ------------------------------------------------------------- next invocation
\* the process has ended; the operator runs the tool once more
Restart ==
  /\ pc = "done"
  /\ again
  /\ again' = FALSE
  /\ pc' = "start"
  /\ command' = "none"
  /\ argv' = "none"
  /\ serialArg' = 0
  /\ regID' = 0
  /\ reasonCode' = 0
  /\ tx' = "none"
  /\ certs' = <<>>
  /\ idx' = 0
  /\ serial' = 0
  /\ cert' = NoCert
  /\ err' = ""
  /\ exit' = -1
  /\ trace' = <<>>
  /\ raCalls' = <<>>
  /\ logged' = <<>>
  /\ stats' = <<>>
  /\ saReply' = <<>>
  /\ printed' = <<>>
  /\ UNCHANGED <<store, raRevoked>>

Next ==
  \/ Invoke
  \/ Main_Flags
  \/ Main_Switch
  \/ SetupContext
  \/ Begin
  \/ RBS_Validate
  \/ RBS_Select
  \/ RBS_Parse
  \/ RBS_UserCurrent
  \/ RBS_Revoke
  \/ RBS_Log
  \/ Panic
  \/ AuditPanic
  \/ SerialRevokeCheck
  \/ Commit
  \/ GetRegistration
  \/ RevokeByReg_Select
  \/ RevokeByReg_Loop
  \/ RegRevokeCheck
  \/ ListReasons
  \/ AuthRevoke_Call
  \/ AuthRevoke_Report
  \/ Restart

Spec == Init /\ [][Next]_vars

\* ------------------------------------------------------------- properties
\* the calls of this invocation with the given op, in order
Calls(op) == SelectSeq(trace, LAMBDA e : e.op = op)
Called(op) == \E i \in DOMAIN trace : trace[i].op = op
ArgsOf(op) == [i \in 1 .. Len(Calls(op)) |-> Calls(op)[i].arg]
IsPrefix(s, t) == Len(s) <= Len(t) /\ \A i \in 1 .. Len(s) : s[i] = t[i]
Distinct(s) == \A i, j \in 1 .. Len(s) : s[i] = s[j] => i = j
StoredSerials == {store[i].serial : i \in 1 .. Len(store)}
\* the reason codes of the data model (spec section 3)
ValidReasons == {0, 1, 2, 3, 4, 5, 6, 8, 9, 10}
\* revokeBySerial is past its reason check
\* the command line, the configuration and setupContext have let the process
\* through: the operation the command names has been entered
OperationStarted ==
  /\ pc \notin {"start", "main", "switch", "setupContext"}
  /\ err \notin StartupErrors
\* the process ended before the operation it was asked for: nothing was called
StartupFailed == pc = "done" /\ err \in StartupErrors

PastValidation == pc \in {"rbs_select", "rbs_parse", "rbs_user", "rbs_revoke", "rbs_log"}
\* serial-revoke has called revokeBySerial and the reason check has run
SerialRevokeChecked ==
  command = "serial-revoke" /\ tx # "none" /\ pc # "revokeBySerial"

\* C1: in RevokeBySerial a reason code in {0,1,2,3,4,5,6,8,9,10} passes validation
\* and the operation goes on to the store lookup; with 7, a negative code or a
\* code above 10 validation fails and the invocation makes no store lookup and no
\* remote revoke call.
C1_ReasonValidation ==
  /\ PastValidation => reasonCode \in ValidReasons
  /\ SerialRevokeChecked /\ reasonCode \in ValidReasons =>
       \/ pc = "rbs_select"
       \/ ArgsOf("selectCertificate") = <<serialArg>>
  /\ SerialRevokeChecked /\ reasonCode \notin ValidReasons =>
       /\ pc \in {"panic", "done"}
       /\ err = "InvalidReason"
  /\ command \in {"serial-revoke", "reg-revoke"} /\ reasonCode \notin ValidReasons =>
       /\ ~Called("selectCertificate")
       /\ ~Called("revoke")
       /\ raCalls = <<>>

C1_Witness ==
  /\ command = "serial-revoke"
  /\ reasonCode = UnusedReasonCode
  /\ serialArg \in StoredSerials
  /\ pc = "done"
  /\ err = "InvalidReason"
  /\ trace = <<Ev("begin", 0)>>

\* C2: with an invalid reason, no operation that takes a reason code makes any
\* lookup or remote call, and none commits: reg-revoke makes no getRegistration
\* call, no enumeration, no remote revoke call and no commit, whatever number of
\* certificates the registration owns.
C2_ValidationBeforeAnyCall ==
  command \in {"serial-revoke", "reg-revoke"} /\ reasonCode \notin ValidReasons =>
    /\ ~Called("getRegistration")
    /\ ~Called("selectByReg")
    /\ ~Called("selectCertificate")
    /\ ~Called("revoke")
    /\ ~Called("commit")

\* C3: the remote revoke calls of a cascade are a prefix of the enumerated list,
\* in its order, each certificate looked up and revoked at most once; after the
\* first failing certificate nothing more is looked up or revoked, and a cascade
\* that ends without error has revoked every enumerated certificate (3 calls for
\* 3 certificates).
CascadeFailed == pc \in {"regReturned", "done"} /\ err # "" /\ idx >= 1
C3_CascadeOrder ==
  command = "reg-revoke" =>
    /\ IsPrefix(ArgsOf("revoke"), certs)
    /\ IsPrefix(ArgsOf("selectCertificate"), certs)
    /\ IsPrefix(ArgsOf("audit"), ArgsOf("revoke"))
    /\ Distinct(ArgsOf("revoke"))
    /\ Distinct(ArgsOf("selectCertificate"))
    /\ Len(raCalls) = Len(ArgsOf("revoke"))
    /\ CascadeFailed =>
         /\ Len(ArgsOf("selectCertificate")) <= idx
         /\ Len(ArgsOf("revoke")) <= idx
         /\ Len(ArgsOf("audit")) = idx - 1
    /\ pc \in {"regReturned", "commit", "done"} /\ err = "" /\ Called("selectByReg") =>
         /\ ArgsOf("revoke") = certs
         /\ ArgsOf("audit") = certs

C3_Witness ==
  /\ command = "reg-revoke"
  /\ pc = "done"
  /\ Len(certs) = 3
  /\ idx = 2
  /\ err = "RemoteCallFailure"
  /\ ArgsOf("revoke") = <<certs[1], certs[2]>>
  /\ ArgsOf("audit") = <<certs[1]>>
  /\ certs[1] > certs[2]

\* C4: reg-revoke commits only if every enumerated certificate was revoked
\* successfully; if any step fails the transaction is rolled back and commit is
\* never attempted; commit and rollback never both occur in one invocation.
C4_CommitOnlyIfAllRevoked ==
  command = "reg-revoke" =>
    /\ Called("commit") => Called("selectByReg") /\ ArgsOf("audit") = certs
    /\ pc = "done" /\ OperationStarted /\ err # "" /\ tx # "commitfailed" =>
         Called("rollback") /\ ~Called("commit")
    /\ ~(Called("commit") /\ Called("rollback"))

\* C5: a certificate whose remote revoke call returned success stays revoked in
\* the registration authority in every later state (rollback, failed commit,
\* exit, a later invocation); after a cascade that fails at certificate k the
\* certificates before k, and in a first invocation exactly those, are revoked
\* remotely, and the local transaction is rolled back.
RevokedBefore(k) == {certs[i] : i \in 1 .. (k - 1)}
\* revokeBySerial did not return nil for certs[idx] and the process has ended
FailedAtCertificate ==
  command = "reg-revoke" /\ CascadeFailed /\ pc = "done" /\ idx <= Len(certs)
C5_RemoteState ==
  /\ command \in {"serial-revoke", "reg-revoke"} =>
       \A i \in 1 .. Len(ArgsOf("audit")) : ArgsOf("audit")[i] \in raRevoked
  /\ command = "reg-revoke" /\ CascadeFailed /\ pc = "done" =>
       /\ RevokedBefore(idx) \subseteq raRevoked
       /\ again => raRevoked = RevokedBefore(idx)
  /\ FailedAtCertificate => tx = "rolledback"
C5_RemoteIrreversible ==
  /\ []C5_RemoteState
  /\ [][raRevoked \subseteq raRevoked']_vars

\* C6: RevokeBySerial with a valid reason on a serial absent from the store
\* returns NotFound (unless the query itself fails), makes no remote revoke call
\* and emits no audit record.
C6_AbsentSerial ==
  command = "serial-revoke" /\ reasonCode \in ValidReasons /\ serialArg \notin StoredSerials =>
    /\ raCalls = <<>>
    /\ ~Called("revoke")
    /\ logged = <<>>
    /\ pc \notin {"rbs_parse", "rbs_user", "rbs_revoke", "rbs_log", "commit"}
    /\ pc \in {"serialReturned", "done"} /\ tx # "none" =>
         /\ err \in {"NotFound", "StoreFailure"}
         /\ ArgsOf("selectCertificate") = <<serialArg>>
    /\ pc = "done" /\ tx # "none" => exit = 1

C6_Witness ==
  /\ command = "serial-revoke"
  /\ reasonCode \in ValidReasons
  /\ Len(store) = MaxCerts
  /\ serialArg \notin StoredSerials
  /\ pc = "done"
  /\ err = "NotFound"
  /\ tx = "rolledback"

\* the row of the table that holds a serial
RecordOf(s) == store[CHOOSE i \in 1 .. Len(store) : store[i].serial = s]
AuditLine(s, c) == <<"Revoked certificate ", s, " with reason '", ReasonToString[c], "'">>
SerialRevokeOnPresent ==
  /\ command = "serial-revoke"
  /\ reasonCode \in ValidReasons
  /\ serialArg \in StoredSerials
  /\ tx # "none"
\* the lookup failed in the store, or the administrator's identity did not resolve
LookupFailed == (err = "StoreFailure" /\ tx # "commitfailed") \/ err = "NilPointer"

\* C7 as stated: RevokeBySerial on a present serial with a valid reason makes
\* exactly one remote revoke call, with the decoded certificate and the supplied
\* reason, and exactly one audit record with the serial and the reason's label.
C7_ExactlyOneCallAndRecord ==
  SerialRevokeOnPresent /\ pc = "done" /\ ~LookupFailed =>
    /\ raCalls = <<[cert |-> ParseCertificate(RecordOf(serialArg).der),
                    reason |-> reasonCode]>>
    /\ logged = <<AuditLine(serialArg, reasonCode)>>

\* C7 amended: when the record is read, its bytes decode and the administrator's
\* identity resolves, there is exactly one remote revoke call, with the decoded
\* certificate and the supplied reason; one audit record with the serial and the
\* label if that call succeeds, none if it fails.
C7_OneCallWhenDecoded ==
  SerialRevokeOnPresent =>
    /\ Len(raCalls) <= 1
    /\ Len(logged) <= Len(raCalls)
    /\ pc \in {"serialReturned", "commit", "done"} /\ ~LookupFailed
         /\ RecordOf(serialArg).der = GoodDer(serialArg) =>
         /\ raCalls = <<[cert |-> [SerialNumber |-> serialArg,
                                   Raw |-> RecordOf(serialArg).der],
                         reason |-> reasonCode]>>
         /\ Len(Calls("revoke")) = 1
         /\ IF err = "RemoteCallFailure"
              THEN logged = <<>>
              ELSE logged = <<AuditLine(serialArg, reasonCode)>>

C7_Witness ==
  /\ command = "serial-revoke"
  /\ pc = "done"
  /\ exit = 0
  /\ reasonCode = 1
  /\ Len(store) = MaxCerts
  /\ raCalls = <<[cert |-> ParseCertificate(RecordOf(serialArg).der), reason |-> 1]>>
  /\ logged = <<<<"Revoked certificate ", serialArg, " with reason '", "keyCompromise", "'">>>>

\* C8: if getRegistration fails, reg-revoke ends with an error before any
\* certificate is touched: no enumeration, no lookup by serial, no remote revoke
\* call and no commit.
GetRegistrationFailed ==
  /\ command = "reg-revoke"
  /\ pc = "done"
  /\ trace # <<>>
  /\ trace[Len(trace)].op = "getRegistration"
C8_RegistrationNotResolved ==
  /\ command = "reg-revoke" /\ regID \notin Registrations =>
       /\ ~Called("selectByReg")
       /\ ~Called("selectCertificate")
       /\ ~Called("revoke")
       /\ ~Called("commit")
       /\ raCalls = <<>>
       /\ pc \in {"main", "switch", "setupContext", "begin", "getRegistration", "done"}
  /\ GetRegistrationFailed =>
       /\ exit = 1
       /\ err \in {"NotFound", "RemoteCallFailure"}
       /\ trace = <<Ev("begin", 0), Ev("getRegistration", regID)>>
       /\ raCalls = <<>>

C8_Witness ==
  /\ command = "reg-revoke"
  /\ regID \notin Registrations
  /\ reasonCode \in ValidReasons
  /\ Len(store) = MaxCerts
  /\ pc = "done"
  /\ exit = 1
  /\ err = "NotFound"

\* C9: on any failure serial-revoke and reg-revoke end with a nonzero exit status
\* and without a commit; exit status zero is reached only after a successful
\* commit.
C9_NonzeroExitOnFailure ==
  command \in {"serial-revoke", "reg-revoke"} /\ pc = "done" =>
    /\ (err # "" \/ reasonCode \notin ValidReasons) => exit # 0 /\ tx # "committed"
    /\ exit = 0 => tx = "committed"

\* C10: auth-revoke makes exactly one remote revokeAuthorizationsByDomain call,
\* opens no local transaction, and reports the valid and the pending count as
\* the remote returned them in the log record and in the metrics; (0, 0) is a
\* success; a remote error ends the run with no counts reported.
C10_AuthRevoke ==
  command = "auth-revoke" =>
    /\ tx = "none"
    /\ ~Called("begin") /\ ~Called("commit") /\ ~Called("rollback")
    /\ raCalls = <<>>
    /\ StartupFailed => trace = <<>> /\ logged = <<>> /\ stats = <<>>
    /\ pc \in {"authReport", "done"} /\ OperationStarted =>
         Len(Calls("revokeAuthorizationsByDomain")) = 1
    /\ pc = "done" /\ saReply # <<>> =>
         /\ exit = 0
         /\ logged = << <<"Revoked ", saReply[1].pendingAuthsRevoked,
                          " pending authorizations and ", saReply[1].authsRevoked,
                          " final authorizations">> >>
         /\ stats = <<[name |-> "RevokedAuthorizations",
                       value |-> saReply[1].authsRevoked],
                      [name |-> "RevokedPendingAuthorizations",
                       value |-> saReply[1].pendingAuthsRevoked]>>
    /\ pc = "done" /\ OperationStarted /\ saReply = <<>> =>
         /\ exit = 1
         /\ err = "RemoteCallFailure"
         /\ logged = <<>>
         /\ stats = <<>>

C10_Witness ==
  /\ command = "auth-revoke"
  /\ pc = "done"
  /\ exit = 0
  /\ saReply = <<[authsRevoked |-> 2, pendingAuthsRevoked |-> 1]>>
  /\ Len(logged) = 1
  /\ Len(stats) = 2

\* C11: a second RevokeBySerial for a serial the authority already holds revoked
\* makes its one remote revoke call like the first; if the authority rejects it,
\* the invocation fails with that remote error, emits no audit record and does
\* not commit.
SecondOnRevoked ==
  /\ ~again
  /\ SerialRevokeOnPresent
  /\ serialArg \in raRevoked
C11_NoLocalRecord ==
  SecondOnRevoked =>
    /\ pc \in {"serialReturned", "commit", "done"} /\ ~LookupFailed
         /\ RecordOf(serialArg).der = GoodDer(serialArg) =>
         /\ Len(raCalls) = 1
         /\ ArgsOf("revoke") = <<serialArg>>
    /\ err = "RemoteCallFailure" =>
         /\ Len(raCalls) = 1
         /\ logged = <<>>
         /\ ~Called("audit")
         /\ ~Called("commit")
         /\ tx # "committed"
         /\ pc = "done" => exit = 1 /\ tx = "rolledback"

C11_Witness ==
  /\ SecondOnRevoked
  /\ pc = "done"
  /\ err = "RemoteCallFailure"
  /\ exit = 1
  /\ ArgsOf("revoke") = <<serialArg>>
  /\ raRevoked = {serialArg}

\* C12: every serial-revoke, reg-revoke and auth-revoke that completes
\* successfully has emitted at least one audit record, also for a registration
\* that owns no certificate; and a record "Revoked certificate <serial>" comes
\* only after the remote revoke call for that serial returned success.
CompletedSuccessfully ==
  /\ command \in {"serial-revoke", "reg-revoke", "auth-revoke"}
  /\ command # "auth-revoke" => reasonCode \in ValidReasons
  /\ pc = "done"
  /\ exit = 0
  /\ err = ""
C12_AuditBeforeSuccess ==
  /\ CompletedSuccessfully => Len(logged) >= 1
  /\ command \in {"serial-revoke", "reg-revoke"} =>
       \A i \in DOMAIN trace :
         trace[i].op = "audit" =>
           /\ i > 1
           /\ trace[i - 1] = Ev("revoke", trace[i].arg)
           /\ trace[i].arg \in raRevoked

\* C13: list-reasons prints every valid reason code with its label, ascending by
\* code and without code 7, and makes no store transaction and no remote call.
C13_ListReasons ==
  command = "list-reasons" =>
    /\ tx = "none"
    /\ trace = <<>>
    /\ raCalls = <<>>
    /\ saReply = <<>>
    /\ StartupFailed => printed = <<>>
    /\ pc = "done" /\ OperationStarted =>
         /\ exit = 0
         /\ {printed[i][1] : i \in DOMAIN printed} = ValidReasons
         /\ \A i \in DOMAIN printed : printed[i][1] # 7
         /\ \A i, j \in DOMAIN printed : i < j => printed[i][1] < printed[j][1]
         /\ \A i \in DOMAIN printed : printed[i][2] = ReasonToString[printed[i][1]]
         /\ \A i, j \in DOMAIN printed : printed[i][2] = printed[j][2] => i = j

C13_Witness ==
  /\ command = "list-reasons"
  /\ pc = "done"
  /\ Len(printed) = 10
  /\ printed[1] = <<0, "unspecified">>
  /\ printed[8] = <<8, "removeFromCRL">>

\* C14: serial-revoke and reg-revoke begin exactly one local transaction, before
\* any lookup or remote call, and every path that ends the operation resolves it
\* exactly once, by commit or by rollback, before the process terminates.
Resolutions == Len(Calls("commit")) + Len(Calls("rollback"))
C14_OneTransactionResolvedOnce ==
  command \in {"serial-revoke", "reg-revoke"} =>
    /\ trace # <<>> => trace[1].op = "begin"
    /\ Len(Calls("begin")) <= 1
    /\ Resolutions <= 1
    /\ pc = "done" /\ OperationStarted => Len(Calls("begin")) = 1 /\ Resolutions = 1

\* C15: when the stored bytes of a present serial do not decode, RevokeBySerial
\* ends with a terminal error, with no remote revoke call and no audit record for
\* that serial; inside a cascade nothing after that certificate is attempted.
Malformed(s) == s \in StoredSerials /\ ParseCertificate(RecordOf(s).der) = NoCert
Attempted(s) == \E i \in DOMAIN trace : trace[i] = Ev("selectCertificate", s)
C15_MalformedCertificate ==
  /\ command = "serial-revoke" /\ reasonCode \in ValidReasons /\ Malformed(serialArg) =>
       /\ raCalls = <<>>
       /\ logged = <<>>
       /\ pc \notin {"rbs_user", "rbs_revoke", "rbs_log", "commit"}
       /\ pc \in {"serialReturned", "done"} /\ tx # "none" =>
            err \in {"MalformedCertificate", "StoreFailure"}
       /\ pc = "done" /\ tx # "none" => exit = 1 /\ tx = "rolledback"
  /\ command = "reg-revoke" =>
       \A k \in 1 .. Len(certs) :
         Malformed(certs[k]) =>
           /\ \A i \in DOMAIN trace : trace[i].op \in {"revoke", "audit"} => trace[i].arg # certs[k]
           /\ \A i \in DOMAIN raCalls : raCalls[i].cert.SerialNumber # certs[k]
           /\ \A j \in (k + 1) .. Len(certs) : ~Attempted(certs[j])
           /\ idx <= k
           /\ pc \notin {"commit"} /\ tx # "committed"
           /\ Attempted(certs[k]) /\ pc = "done" =>
                /\ err \in {"MalformedCertificate", "StoreFailure"}
                /\ exit = 1
                /\ tx = "rolledback"

C15_Witness ==
  /\ command = "reg-revoke"
  /\ pc = "done"
  /\ Len(certs) = 3
  /\ ~Malformed(certs[1])
  /\ Malformed(certs[2])
  /\ ~Malformed(certs[3])
  /\ err = "MalformedCertificate"
  /\ ArgsOf("selectCertificate") = <<certs[1], certs[2]>>
  /\ ArgsOf("revoke") = <<certs[1]>>
  /\ Len(logged) = 1

\* C16: no operation writes to the certificate table: its rows are the same
\* after every step of every command, committed or rolled back; what changes is
\* the state of the remote authority.
C16_StoreReadOnly == [][store' = store]_vars

C16_Witness ==
  /\ command = "reg-revoke"
  /\ pc = "done"
  /\ tx = "rolledback"
  /\ Len(store) = MaxCerts
  /\ Cardinality(raRevoked) = 2
  /\ ~again

\* C17: every remote revoke call of reg-revoke is for a certificate whose row is
\* owned by the registration given and carries the reason code given; a cascade
\* revokes no certificate of another registration, and one that ends without
\* error has revoked every certificate the registration owns.
OwnedBy(r) == {store[i].serial : i \in {j \in 1 .. Len(store) : store[j].registrationID = r}}
C17_CascadeScope ==
  command = "reg-revoke" =>
    /\ \A i \in DOMAIN raCalls :
         /\ raCalls[i].reason = reasonCode
         /\ raCalls[i].cert.SerialNumber \in OwnedBy(regID)
         /\ raCalls[i].cert = ParseCertificate(RecordOf(raCalls[i].cert.SerialNumber).der)
    /\ again => raRevoked \subseteq OwnedBy(regID)
    /\ pc = "done" /\ err = "" /\ tx = "committed" =>
         /\ OwnedBy(regID) \subseteq raRevoked
         /\ {raCalls[i].cert.SerialNumber : i \in DOMAIN raCalls} = OwnedBy(regID)
         /\ Len(raCalls) = Cardinality(OwnedBy(regID))

C17_Witness ==
  /\ command = "reg-revoke"
  /\ again
  /\ pc = "done"
  /\ tx = "committed"
  /\ Len(store) = MaxCerts
  /\ Cardinality(OwnedBy(regID)) = 2
  /\ raRevoked = OwnedBy(regID)
  /\ reasonCode = 4

\* C18: reg-revoke with a valid reason on an existing registration that owns no
\* certificate makes no remote revoke call, commits the local transaction and
\* ends successfully (unless the store or the storage authority itself fails).
EmptyRegistration ==
  /\ command = "reg-revoke"
  /\ reasonCode \in ValidReasons
  /\ regID \in Registrations
  /\ OwnedBy(regID) = {}
C18_EmptyRegistrationCommits ==
  EmptyRegistration =>
    /\ raCalls = <<>>
    /\ ~Called("selectCertificate")
    /\ ~Called("revoke")
    /\ ~Called("rollback") \/ err = "StoreFailure"
    /\ OperationStarted => err \in {"", "StoreFailure", "RemoteCallFailure"}
    /\ pc = "done" /\ err = "" =>
         /\ trace = <<Ev("begin", 0), Ev("getRegistration", regID),
                      Ev("selectByReg", regID), Ev("commit", 0)>>
         /\ tx = "committed"
         /\ exit = 0

C18_Witness ==
  /\ EmptyRegistration
  /\ Len(store) = MaxCerts
  /\ pc = "done"
  /\ tx = "committed"
  /\ exit = 0
  /\ raRevoked = {}

====
